---- MODULE Spec2Model ----
(***************************************************************************)
(* Model of the transaction tracer of src/tracer.go: the Tracer object     *)
(* (frame stack, pending jump, jump depth) and its two callbacks           *)
(* CaptureStart and CaptureState, together with the                        *)
(* lookup helpers and the parameter decoders they call.                    *)
(*                                                                         *)
(* Frames are heap objects (the code handles *CallFrame): `heap` holds the *)
(* live CallFrame objects, Stack and LastJump hold references into it.     *)
(* The VM invokes one callback at a time: `call` holds the arguments of    *)
(* the callback in progress and `phase` its position ("idle": the VM runs, *)
(* "called": the callback was entered, "returned": it returned nil,        *)
(* "panicked": it panicked; nothing in the program recovers from a panic,  *)
(* so no callback runs afterwards).                                        *)
(*                                                                         *)
(* `origin` is a history variable: for every frame on the stack, the kind  *)
(* of callback whose Push put it there.                                    *)
(***************************************************************************)
EXTENDS Integers, Sequences, FiniteSets, TLC

VARIABLES heap, Stack, LastJump, jumpDepth, phase, call, probe, origin

vars == <<heap, Stack, LastJump, jumpDepth, phase, call, probe, origin>>

(***************************************************************************)
(* Bounds of the model.                                                    *)
(***************************************************************************)
MaxStack == 2        \* frames pushed before the environment stops calling
MaxPC == 3           \* program counters 0..MaxPC are presented
MaxVmDepth == 1      \* VM call depths 1..MaxVmDepth are presented
WordBytes == 2       \* bytes of one ABI word (32 in the EVM, scaled down)
AddrBytes == 1       \* bytes of an address inside a word (20, scaled down)

MaxMapLen == 4       \* entries of a source map the backward walk is run on
MaxParams == 2       \* parameters of a function decoded in stack mode
MaxEval == 3         \* words of the evaluation stack they are decoded from

SelBytes == 4        \* bytes of a function selector

Nil == 0             \* the nil *CallFrame / nil index
Panic == -1          \* result of a helper that panicked

(***************************************************************************)
(* Small sequence helpers.                                                 *)
(***************************************************************************)
Range(s) == {s[i] : i \in DOMAIN s}

\* Go's s[lo:hi] on a 0-based string / slice
Slice(s, lo, hi) == SubSeq(s, lo + 1, hi)

HasPrefix(s, p) == Len(s) >= Len(p) /\ SubSeq(s, 1, Len(p)) = p

RECURSIVE FlattenSeq(_)
FlattenSeq(ss) == IF ss = <<>> THEN <<>> ELSE Head(ss) \o FlattenSeq(Tail(ss))

HexDigits == <<"0","1","2","3","4","5","6","7","8","9","a","b","c","d","e","f">>

\* fmt.Sprintf("%x", bytes)
Hex(bs) == FlattenSeq([i \in DOMAIN bs |->
                 <<HexDigits[(bs[i] \div 16) + 1], HexDigits[(bs[i] % 16) + 1]>>])

(***************************************************************************)
(* The artifacts handed to NewTracer, and the deployed code of every       *)
(* address the VM executes.  Source text is a sequence of tokens: "F" is   *)
(* the keyword `function`, "\n" a line terminator, "}" a closing brace and *)
(* "x" any other text.                                                     *)
(***************************************************************************)
Addrs == {"a", "b", "u"}

T_uint256 == <<"u","i","n","t","2","5","6">>
T_int256 == <<"i","n","t","2","5","6">>
T_address == <<"a","d","d","r","e","s","s">>
T_bool == <<"b","o","o","l">>
T_bytes == <<"b","y","t","e","s">>

SelSet == <<96, 254, 71, 177>>
SelBalanceOf == <<112, 160, 130, 49>>
SelUnknown == <<255, 255, 255, 255>>

SourceA == <<"F", "x", "\n", "}", "\n", "F", "\n", "}">>
SourceB == <<"F", "\n", "}">>

AstA == << [Name |-> "set", Visibility |-> "public", Kind |-> "function",
            Start |-> 0, Length |-> 4, Selector |-> SelSet,
            Parameters |-> << [Name |-> "x", TypeString |-> T_uint256] >>],
           [Name |-> "_store", Visibility |-> "private", Kind |-> "function",
            Start |-> 5, Length |-> 3, Selector |-> <<>>,
            Parameters |-> << [Name |-> "val", TypeString |-> T_int256] >>] >>

AstB == << [Name |-> "balanceOf", Visibility |-> "external", Kind |-> "function",
            Start |-> 0, Length |-> 3, Selector |-> SelBalanceOf,
            Parameters |-> << [Name |-> "owner", TypeString |-> T_address] >>],
           [Name |-> "", Visibility |-> "external", Kind |-> "fallback",
            Start |-> 0, Length |-> 3, Selector |-> <<>>,
            Parameters |-> <<>>] >>

\* the (start, length) of every instruction ordinal, as encoded in the artifact
SpansA == << <<0, 4>>, <<1, 1>>, <<5, 3>> >>
SpansB == << <<0, 3>>, <<0, 3>> >>

contracts == [addr \in {"a", "b"} |->
    IF addr = "a"
    THEN [Name |-> "A", SourceCode |-> SourceA, Ast |-> AstA, SourceMap |-> SpansA]
    ELSE [Name |-> "B", SourceCode |-> SourceB, Ast |-> AstB, SourceMap |-> SpansB]]

\* vm.Contract.Code of the contract executing at an address
CodeOf(addr) == IF addr = "a" THEN <<96, 3, 86, 91>>
                ELSE IF addr = "b" THEN <<91, 86, 0>>
                ELSE <<0>>

(***************************************************************************)
(* Derived tables.                                                         *)
(***************************************************************************)
\* 1-based line of byte offset `start`: one more than the line terminators before it
LineOf(src, start) == 1 + Cardinality({i \in 1..start : src[i] = "\n"})

ParseSourceMap(spans, src) ==
    [i \in DOMAIN spans |-> [Start |-> spans[i][1], Length |-> spans[i][2],
                             Line |-> LineOf(src, spans[i][1])]]

DiscoverFunctionDefinitions(ast) ==
    SelectSeq(ast, LAMBDA n : \/ n.Kind = "function" /\ n.Visibility \in {"public", "external"}
                              \/ n.Kind \in {"fallback", "receive"})

DiscoverPrivateFunctionDefinitions(ast) ==
    SelectSeq(ast, LAMBDA n : n.Visibility \in {"internal", "private"})

Receiver(fnDef) == Hex(fnDef.Selector)

sourceMaps == [addr \in DOMAIN contracts |->
                  ParseSourceMap(contracts[addr].SourceMap, contracts[addr].SourceCode)]

functionDefs == [addr \in DOMAIN contracts |->
                  DiscoverPrivateFunctionDefinitions(contracts[addr].Ast)]

RECURSIVE IndexFrom(_, _, _)
IndexFrom(code, pc, ord) ==
    IF pc >= Len(code) THEN <<>>
    ELSE LET op == code[pc + 1]
             step == IF op >= 96 /\ op <= 127 THEN op - 96 + 2 ELSE 1
         IN  <<<<pc, ord>>>> \o IndexFrom(code, pc + step, ord + 1)

\* pc -> instruction ordinal, as a set of pairs
InstructionByBytecodePosition(code) == Range(IndexFrom(code, 0, 0))

(***************************************************************************)
(* Parameter decoders.  A decoded string  name + " = " + value  is the     *)
(* triple <<name, kind, n>>: kind "int" with n the integer whose decimal   *)
(* is printed, kind "address" with n the address bytes as a number, kind   *)
(* "bool" with n = 1 for "true" and 0 for "false".  <<>> is the empty      *)
(* string.  A byte buffer is [bytes, len]: bytes is the backing array up   *)
(* to its capacity, len the slice length.                                  *)
(***************************************************************************)
EmptyString == <<>>

\* big.Int.SetBytes: the bytes read as a big-endian unsigned integer
RECURSIVE SetBytes(_)
SetBytes(bs) == IF bs = <<>> THEN 0
                ELSE SetBytes(SubSeq(bs, 1, Len(bs) - 1)) * 256 + bs[Len(bs)]

\* common.BytesToAddress: the low AddrBytes bytes
BytesToAddress(bs) ==
    IF Len(bs) > AddrBytes THEN SetBytes(SubSeq(bs, Len(bs) - AddrBytes + 1, Len(bs)))
    ELSE SetBytes(bs)

RECURSIVE Pow256(_)
Pow256(n) == IF n = 0 THEN 1 ELSE 256 * Pow256(n - 1)

\* common.BigToAddress: the low AddrBytes bytes of the integer
BigToAddress(item) == item % Pow256(AddrBytes)

\* input[lo:hi] is in range
CanSlice(input, lo, hi) == lo <= hi /\ hi <= Len(input.bytes)

\* DecodeParam; <<Panic>> when the slice expression is out of range
DecodeParam(node, offset, input) ==
    LET name == node.TypeString
        word == Slice(input.bytes, offset, offset + WordBytes)
    IN  IF HasPrefix(name, <<"i","n","t">>) \/ HasPrefix(name, <<"u","i","n","t">>)
        THEN IF ~CanSlice(input, offset, offset + WordBytes) THEN <<Panic>>
             ELSE <<node.Name, "int", SetBytes(word)>>
        ELSE IF name = T_address
        THEN IF ~CanSlice(input, offset, offset + WordBytes) THEN <<Panic>>
             ELSE <<node.Name, "address", BytesToAddress(word)>>
        ELSE IF name = T_bool
        THEN IF ~CanSlice(input, offset, offset + WordBytes) THEN <<Panic>>
             ELSE IF SetBytes(word) > 0 THEN <<node.Name, "bool", 1>>
                  ELSE <<node.Name, "bool", 0>>
        ELSE EmptyString

\* DecodeStack
DecodeStack(node, item) ==
    LET name == node.TypeString
    IN  IF HasPrefix(name, <<"i","n","t">>) \/ HasPrefix(name, <<"u","i","n","t">>)
        THEN <<node.Name, "int", item>>
        ELSE IF name = T_address
        THEN <<node.Name, "address", BigToAddress(item)>>
        ELSE IF name = T_bool
        THEN IF item > 0 THEN <<node.Name, "bool", 1>> ELSE <<node.Name, "bool", 0>>
        ELSE EmptyString

PanicParams == << <<Panic>> >>

\* the buffer-mode loop of CaptureStart / CaptureState: every parameter
\* advances the offset by one word, empty strings are skipped
RECURSIVE DecodeParams(_, _, _, _)
DecodeParams(paramNodes, k, offset, input) ==
    IF k > Len(paramNodes) THEN <<>>
    ELSE LET p == DecodeParam(paramNodes[k], offset, input)
         IN  IF p = <<Panic>> THEN PanicParams
             ELSE LET rest == DecodeParams(paramNodes, k + 1, offset + WordBytes, input)
                  IN  IF rest = PanicParams THEN PanicParams
                      ELSE IF p = EmptyString THEN rest
                      ELSE <<p>> \o rest

\* stack.Back(n) of the evaluation stack st (last element is the top)
CanBack(st, n) == n < Len(st)
Back(st, n) == st[Len(st) - n]

Reverse(s) == [i \in DOMAIN s |-> s[Len(s) + 1 - i]]

\* the stack-mode loop of CaptureState followed by the in-place reversal
RECURSIVE StackLoop(_, _, _)
StackLoop(paramNodes, i, st) ==
    IF i >= Len(paramNodes) THEN <<>>
    ELSE IF ~CanBack(st, i) THEN PanicParams
    ELSE LET p == DecodeStack(paramNodes[Len(paramNodes) - i], Back(st, i))
             rest == StackLoop(paramNodes, i + 1, st)
         IN  IF rest = PanicParams THEN PanicParams
             ELSE IF p = EmptyString THEN rest
             ELSE <<p>> \o rest

\* stack-mode decoding that leaves the strings in the order they were read
DecodeStackParamsUnreversed(paramNodes, st) == StackLoop(paramNodes, 0, st)

DecodeStackParams(paramNodes, st) ==
    LET ps == StackLoop(paramNodes, 0, st)
    IN  IF ps = PanicParams THEN PanicParams ELSE Reverse(ps)

(***************************************************************************)
(* The frame heap.  A reference is an index into heap, Nil is the nil      *)
(* pointer.  Collect drops the frames no reference reaches (the garbage    *)
(* collector's work) and renumbers the rest in allocation order.           *)
(***************************************************************************)
CallFrame(contract, instruction, source, line, pc, depth, params) ==
    [Contract |-> contract, Instruction |-> instruction, Source |-> source,
     Line |-> line, PC |-> pc, Depth |-> depth, Params |-> params]

Collect(h, stk, lj) ==
    LET refs == Range(stk) \cup (IF lj = Nil THEN {} ELSE {lj})
        rank(i) == Cardinality({j \in refs : j <= i})
    IN  [heap |-> [k \in 1..Cardinality(refs) |-> h[CHOOSE i \in refs : rank(i) = k]],
         Stack |-> [k \in DOMAIN stk |-> rank(stk[k])],
         LastJump |-> IF lj = Nil THEN Nil ELSE rank(lj)]

\* a Push that overwrites the top frame instead of appending
PushOverTop(stk, ref) ==
    IF stk = <<>> THEN <<ref>> ELSE [stk EXCEPT ![Len(stk)] = ref]

\* CallStack.Push
Push(stk, ref) == Append(stk, ref)

\* CallStack.Lookup, with pc - 1 computed on uint64 by the caller
Lookup(h, stk, pc) == \E i \in DOMAIN stk : h[stk[i]].PC = pc

\* pc - 1 on uint64: 0 - 1 wraps to 2^64 - 1, written WrappedPC
WrappedPC == -1
PcMinusOne(pc) == IF pc = 0 THEN WrappedPC ELSE pc - 1

(***************************************************************************)
(* Lookup helpers of the Tracer.                                           *)
(***************************************************************************)
NASource == <<"N/A">>
PanicSource == <<"panic">>

\* instructionMaps[addr]: built from the contract's code the first time the
\* address is seen and kept; the table is the same whether cached or rebuilt
instructionMaps(addr) == InstructionByBytecodePosition(CodeOf(addr))

toInstruction(addr, pc) ==
    LET pcToI == instructionMaps(addr)
    IN  IF \E e \in pcToI : e[1] = pc
        THEN (CHOOSE e \in pcToI : e[1] = pc)[2]
        ELSE 0

\* a *SourceMapping is the 1-based index of the entry in the contract's map
toLine(addr, mapping) ==
    IF mapping = Nil THEN 0 ELSE sourceMaps[addr][mapping].Line

toSourceMapping(addr, instruction) ==
    IF addr \notin DOMAIN sourceMaps THEN Nil
    ELSE IF instruction >= Len(sourceMaps[addr]) THEN Nil
    ELSE instruction + 1

\* a walk that returns the entry before the instruction without comparing
PreviousWalkNoSkip(srcMap, next, realInstruction) ==
    IF realInstruction < 0 THEN Panic ELSE realInstruction + 1

\* the backward walk; realInstruction < 0 stands for the wrapped uint64 index,
\* which is out of range
RECURSIVE PreviousWalk(_, _, _)
PreviousWalk(srcMap, next, realInstruction) ==
    IF realInstruction < 0 THEN Panic
    ELSE IF /\ next.Start = srcMap[realInstruction + 1].Start
            /\ next.Length = srcMap[realInstruction + 1].Length
         THEN PreviousWalk(srcMap, next, realInstruction - 1)
         ELSE realInstruction + 1

\* toPreviousSourceMapping once the contract's source map is found
PreviousMappingIn(srcMap, instruction) ==
    IF instruction >= Len(srcMap) THEN Nil
    ELSE PreviousWalk(srcMap, srcMap[instruction + 1], instruction - 1)

toPreviousSourceMapping(addr, instruction) ==
    IF addr \notin DOMAIN sourceMaps THEN Nil
    ELSE PreviousMappingIn(sourceMaps[addr], instruction)

SourceText(addr, mapping) ==
    LET m == sourceMaps[addr][mapping]
    IN  Slice(contracts[addr].SourceCode, m.Start, m.Start + m.Length)

toSource(addr, pc) ==
    LET mapping == toSourceMapping(addr, toInstruction(addr, pc))
    IN  IF addr \notin DOMAIN contracts THEN NASource
        ELSE IF mapping = Nil THEN PanicSource
        ELSE SourceText(addr, mapping)

toPreviousSource(addr, pc) ==
    LET mapping == toPreviousSourceMapping(addr, toInstruction(addr, pc))
    IN  IF mapping = Panic THEN PanicSource
        ELSE IF addr \notin DOMAIN contracts THEN NASource
        ELSE IF mapping = Nil THEN PanicSource
        ELSE SourceText(addr, mapping)

\* index into functionDefs[addr] of the private function starting at the mapping, or Nil
isFunctionDefinition(addr, mapping) ==
    IF addr \notin DOMAIN functionDefs THEN Nil
    ELSE LET fnDefs == functionDefs[addr]
             hits == {k \in DOMAIN fnDefs : fnDefs[k].Start = sourceMaps[addr][mapping].Start}
         IN  IF hits = {} THEN Nil ELSE CHOOSE k \in hits : \A j \in hits : k <= j

\* index into DiscoverFunctionDefinitions(contracts[addr].Ast) of the first
\* function whose selector is the receiver, or Nil
findFnDef(addr, receiver) ==
    IF addr \notin DOMAIN contracts THEN Nil
    ELSE LET fnDefs == DiscoverFunctionDefinitions(contracts[addr].Ast)
             target == Hex(Slice(receiver, 0, SelBytes))
             hits == {k \in DOMAIN fnDefs : Receiver(fnDefs[k]) = target}
         IN  IF hits = {} THEN Nil ELSE CHOOSE k \in hits : \A j \in hits : k <= j

\* regexp.MatchString(`(?m)function(.*\s)+}`, src) on the token text
MatchFunctionText(src) ==
    \E i \in DOMAIN src : \E j \in DOMAIN src :
        /\ src[i] = "F"
        /\ j > i
        /\ src[j] \in {"\n", " "}
        /\ j + 1 <= Len(src)
        /\ src[j + 1] = "}"

\* strings.Split(s, "\n")[0]
FirstLine(s) ==
    IF \E i \in DOMAIN s : s[i] = "\n"
    THEN SubSeq(s, 1, (CHOOSE i \in DOMAIN s : s[i] = "\n" /\ \A j \in 1..(i - 1) : s[j] # "\n") - 1)
    ELSE s

(***************************************************************************)
(* The callbacks.  Each handler is computed as an outcome                  *)
(* [panic, heap, Stack, LastJump, jumpDepth] from the tracer state t       *)
(* (a record of the same fields) and the callback's arguments.             *)
(***************************************************************************)
Tracer == [panic |-> FALSE, heap |-> heap, Stack |-> Stack, LastJump |-> LastJump,
           jumpDepth |-> jumpDepth]

Panicking(t) == [t EXCEPT !.panic = TRUE]

\* a push that also counts the frame as an internal entry
PushNewCounted(t, frame) ==
    [t EXCEPT !.heap = Append(t.heap, frame),
              !.Stack = Push(t.Stack, Len(t.heap) + 1),
              !.jumpDepth = t.jumpDepth + 1]

\* t.Stack.Push(&CallFrame{...})
PushNew(t, frame) ==
    [t EXCEPT !.heap = Append(t.heap, frame),
              !.Stack = Push(t.Stack, Len(t.heap) + 1)]

\* the loop of CaptureStart over the public function definitions
RECURSIVE StartLoop(_, _, _, _, _)
StartLoop(t, fnDefs, k, to, input) ==
    IF k > Len(fnDefs) THEN t
    ELSE LET fnDef == fnDefs[k]
             target == Hex(Slice(input.bytes, 0, SelBytes))
             params == DecodeParams(fnDef.Parameters, 1, SelBytes, input)
             text == Slice(contracts[to].SourceCode, fnDef.Start, fnDef.Start + fnDef.Length)
         IN  IF Receiver(fnDef) # target THEN StartLoop(t, fnDefs, k + 1, to, input)
             ELSE IF params = PanicParams THEN Panicking(t)
             ELSE StartLoop(PushNew(t, CallFrame(to, 0, FirstLine(text),
                                                 LineOf(contracts[to].SourceCode, fnDef.Start),
                                                 0, 0, params)),
                            fnDefs, k + 1, to, input)

CaptureStartOutcome(t, to, input) ==
    IF to \notin DOMAIN contracts THEN t
    ELSE IF ~CanSlice(input, 0, SelBytes) THEN Panicking(t)
    ELSE StartLoop(t, DiscoverFunctionDefinitions(contracts[to].Ast), 1, to, input)

CallOps == {"CALL", "CALLCODE", "STATICCALL", "DELEGATECALL"}
HaltOps == {"RETURN", "REVERT", "STOP", "SELFDESTRUCT", "INVALID"}
Ops == CallOps \cup HaltOps \cup {"JUMP", "JUMPI", "JUMPDEST", "ADD"}

\* a CALL case that files the frame under the call target instead of the
\* executing contract
CallCaseCallee(t, in) ==
    IF ~CanSlice(in.data, 0, SelBytes) THEN Panicking(t)
    ELSE LET fn == findFnDef(in.target, Slice(in.data.bytes, 0, SelBytes))
         IN  IF fn = Nil THEN Panicking(t)
             ELSE LET fnDef == DiscoverFunctionDefinitions(contracts[in.target].Ast)[fn]
                      params == DecodeParams(fnDef.Parameters, 1, SelBytes, in.data)
                      instruction == toInstruction(in.contract, in.pc)
                      source == toPreviousSource(in.contract, in.pc)
                      mapping == toPreviousSourceMapping(in.contract, instruction)
                  IN  IF params = PanicParams THEN Panicking(t)
                      ELSE IF source = PanicSource THEN Panicking(t)
                      ELSE PushNew(t,
                                   CallFrame(in.target, instruction, source,
                                             toLine(in.contract, mapping), 0,
                                             in.depth + t.jumpDepth, params))

\* case vm.CALL, vm.CALLCODE  and  case vm.STATICCALL, vm.DELEGATECALL
CallCase(t, in) ==
    IF ~CanSlice(in.data, 0, SelBytes) THEN Panicking(t)
    ELSE LET fn == findFnDef(in.target, Slice(in.data.bytes, 0, SelBytes))
         IN  IF fn = Nil THEN Panicking(t)
             ELSE LET fnDef == DiscoverFunctionDefinitions(contracts[in.target].Ast)[fn]
                      params == DecodeParams(fnDef.Parameters, 1, SelBytes, in.data)
                      instruction == toInstruction(in.contract, in.pc)
                      source == toPreviousSource(in.contract, in.pc)
                      mapping == toPreviousSourceMapping(in.contract, instruction)
                  IN  IF params = PanicParams THEN Panicking(t)
                      ELSE IF source = PanicSource THEN Panicking(t)
                      ELSE PushNew(t,
                                   CallFrame(in.contract, instruction, source,
                                             toLine(in.contract, mapping), 0,
                                             in.depth + t.jumpDepth, params))

\* a JUMP case that records the VM depth alone
JumpCaseVmDepth(t, in) ==
    LET instruction == toInstruction(in.contract, in.pc)
        source == toSource(in.contract, in.pc)
        mapping == toSourceMapping(in.contract, instruction)
    IN  IF source = PanicSource THEN Panicking(t)
        ELSE [t EXCEPT !.heap = Append(t.heap,
                                   CallFrame(in.contract, instruction, source,
                                             toLine(in.contract, mapping), in.pc,
                                             in.depth, <<>>)),
              !.LastJump = Len(t.heap) + 1]

\* case vm.JUMP
JumpCase(t, in) ==
    LET instruction == toInstruction(in.contract, in.pc)
        source == toSource(in.contract, in.pc)
        mapping == toSourceMapping(in.contract, instruction)
    IN  IF source = PanicSource THEN Panicking(t)
        ELSE [t EXCEPT !.heap = Append(t.heap,
                                   CallFrame(in.contract, instruction, source,
                                             toLine(in.contract, mapping), in.pc,
                                             in.depth + t.jumpDepth, <<>>)),
              !.LastJump = Len(t.heap) + 1]

\* a return branch without the clamp at zero
JumpDestReturnUnclamped(t) ==
    [t EXCEPT !.jumpDepth = t.jumpDepth - 1]

\* the return branch of case vm.JUMPDEST
JumpDestReturn(t) ==
    [t EXCEPT !.jumpDepth = IF t.jumpDepth - 1 < 0 THEN 0 ELSE t.jumpDepth - 1]

\* an entry branch that does not test the pending jump's source text
JumpDestEntryAnySource(t, in) ==
    LET i == toInstruction(in.contract, in.pc)
        srcMapping == toSourceMapping(in.contract, i)
        fn == isFunctionDefinition(in.contract, srcMapping)
        params == DecodeStackParams(functionDefs[in.contract][fn].Parameters, in.st)
    IN  IF srcMapping = Nil THEN t
        ELSE IF fn # Nil /\ t.LastJump # Nil
        THEN IF params = PanicParams THEN Panicking(t)
             ELSE [t EXCEPT !.heap[t.LastJump].Params = params,
                             !.Stack = Push(t.Stack, t.LastJump),
                             !.jumpDepth = t.jumpDepth + 1]
        ELSE t

\* the entry branch of case vm.JUMPDEST
JumpDestEntry(t, in) ==
    LET i == toInstruction(in.contract, in.pc)
        srcMapping == toSourceMapping(in.contract, i)
        fn == isFunctionDefinition(in.contract, srcMapping)
        params == DecodeStackParams(functionDefs[in.contract][fn].Parameters, in.st)
    IN  IF srcMapping = Nil THEN t
        ELSE IF fn # Nil /\ t.LastJump # Nil
        THEN IF MatchFunctionText(t.heap[t.LastJump].Source) THEN t
             ELSE IF params = PanicParams THEN Panicking(t)
             ELSE [t EXCEPT !.heap[t.LastJump].Params = params,
                             !.Stack = Push(t.Stack, t.LastJump),
                             !.jumpDepth = t.jumpDepth + 1]
        ELSE t

\* a JUMPDEST case whose return branch falls through to the entry branch
JumpDestCaseFallsThrough(t, in) ==
    IF Lookup(t.heap, t.Stack, PcMinusOne(in.pc)) THEN JumpDestEntry(JumpDestReturn(t), in)
    ELSE JumpDestEntry(t, in)

\* case vm.JUMPDEST
JumpDestCase(t, in) ==
    IF Lookup(t.heap, t.Stack, PcMinusOne(in.pc)) THEN JumpDestReturn(t)
    ELSE JumpDestEntry(t, in)

\* a switch whose halting case counts a return (the `t.jumpDepth--` the code
\* has commented out)
SwitchHaltReturns(t, in) ==
    IF in.op \in CallOps THEN CallCase(t, in)
    ELSE IF in.op = "JUMP" THEN JumpCase(t, in)
    ELSE IF in.op = "JUMPDEST" THEN JumpDestCase(t, in)
    ELSE IF in.op \in HaltOps THEN JumpDestReturn(t)
    ELSE t

\* the switch of CaptureState
Switch(t, in) ==
    IF in.op \in CallOps THEN CallCase(t, in)
    ELSE IF in.op = "JUMP" THEN JumpCase(t, in)
    ELSE IF in.op = "JUMPDEST" THEN JumpDestCase(t, in)
    ELSE t

\* a deferred function that also spares LastJump at a JUMPDEST
DeferredSparesJumpdest(t, in) ==
    IF in.op = "JUMP" \/ in.op = "JUMPI" \/ in.op = "JUMPDEST" THEN t
    ELSE [t EXCEPT !.LastJump = Nil]

\* the deferred function of CaptureState; it also runs when the switch panics
Deferred(t, in) ==
    IF in.op = "JUMP" \/ in.op = "JUMPI" THEN t
    ELSE [t EXCEPT !.LastJump = Nil]

CaptureStateOutcome(t, in) == Deferred(Switch(t, in), in)

(***************************************************************************)
(* What the VM presents to the callbacks.                                  *)
(***************************************************************************)
\* the word whose value is v < 256
WordOf(v) == [i \in 1..WordBytes |-> IF i = WordBytes THEN v ELSE 0]

\* the largest word, every bit set
MaxWord == Pow256(WordBytes) - 1

\* a slice whose capacity is its length (memory.Get and tx.Data allocate it)
Buffer(bytes) == [bytes |-> bytes, len |-> Len(bytes)]

\* call target and call data of a CALL-family instruction: a resolved call,
\* a call whose data ends before the parameter, an unknown selector, a target
\* without artifact, and data shorter than a selector
CallArgs == { <<"b", Buffer(SelBalanceOf \o WordOf(1))>>,
              <<"a", Buffer(SelSet)>>,
              <<"b", Buffer(SelUnknown \o WordOf(7))>>,
              <<"u", Buffer(SelSet \o WordOf(7))>>,
              <<"b", Buffer(<<96, 254>>)>> }

\* callee and input of a message call (tx.Data() is a copy: capacity = length)
StartArgs == CallArgs \cup { <<"a", Buffer(SelSet \o WordOf(7))>> }

\* the evaluation stack at a JUMPDEST
EvalStacks == { <<>>, <<7>> }

NoAddr == "-"

Input(op, contract, pc, depth, target, data, st) ==
    [op |-> op, contract |-> contract, pc |-> pc, depth |-> depth,
     target |-> target, data |-> data, st |-> st]

\* the program counters the VM presents for a contract: its code and one past its end
PCsOf(c) == {pc \in 0..MaxPC : pc <= Len(CodeOf(c))}

StateInputs ==
    { Input(op, s[1], s[2], d, a[1], a[2], <<>>) :
         op \in CallOps, s \in {<<c, pc>> : c \in Addrs, pc \in 0..MaxPC},
         d \in 1..MaxVmDepth, a \in CallArgs }
    \cup
    { Input("JUMPDEST", c, pc, 1, NoAddr, Buffer(<<>>), st) :
         c \in Addrs, pc \in 0..MaxPC, st \in EvalStacks }
    \cup
    { Input("JUMP", c, pc, d, NoAddr, Buffer(<<>>), <<>>) :
         c \in Addrs, pc \in 0..MaxPC, d \in 1..MaxVmDepth }
    \cup
    { Input(op, c, 0, 1, NoAddr, Buffer(<<>>), <<>>) :
         op \in Ops \ (CallOps \cup {"JUMP", "JUMPDEST"}), c \in Addrs }

Presented == {in \in StateInputs : in.pc \in PCsOf(in.contract)}

StartInputs ==
    { Input("start", a[1], 0, 0, NoAddr, a[2], <<>>) : a \in StartArgs }

NoInput == Input("none", NoAddr, 0, 0, NoAddr, Buffer(<<>>), <<>>)

(***************************************************************************)
(* The state machine.                                                      *)
(***************************************************************************)
\* NewTracer: empty stack, nil LastJump, zero jumpDepth
Init ==
    /\ heap = <<>>
    /\ Stack = <<>>
    /\ LastJump = Nil
    /\ jumpDepth = 0
    /\ phase = "idle"
    /\ call = NoInput
    /\ probe = <<>>
    /\ origin = <<>>

Outcome(in) ==
    IF in.op = "start" THEN CaptureStartOutcome(Tracer, in.contract, in.data)
    ELSE CaptureStateOutcome(Tracer, in)

\* the VM invokes a callback
Invoke(in) ==
    /\ phase = "idle"
    /\ Len(Outcome(in).Stack) <= MaxStack
    /\ phase' = "called"
    /\ call' = in
    /\ UNCHANGED <<heap, Stack, LastJump, jumpDepth, probe, origin>>

\* which Push put a frame on the stack: the one of CaptureStart ("start"), of
\* a CALL-family case ("call") or of the JUMPDEST entry ("jump")
Origin(op) == IF op = "start" THEN "start"
              ELSE IF op \in CallOps THEN "call"
              ELSE "jump"

\* the tracer after the callback ran with outcome r
Becomes(r) ==
    LET c == Collect(r.heap, r.Stack, r.LastJump)
    IN  /\ heap' = c.heap
        /\ Stack' = c.Stack
        /\ LastJump' = c.LastJump
        /\ jumpDepth' = r.jumpDepth
        /\ phase' = IF r.panic THEN "panicked" ELSE "returned"
        /\ origin' = origin \o [i \in 1..(Len(c.Stack) - Len(Stack)) |-> Origin(call.op)]

CaptureStart ==
    /\ phase = "called"
    /\ call.op = "start"
    /\ Becomes(CaptureStartOutcome(Tracer, call.contract, call.data))
    /\ UNCHANGED <<call, probe>>

CaptureState ==
    /\ phase = "called"
    /\ call.op \in Ops
    /\ Becomes(CaptureStateOutcome(Tracer, call))
    /\ UNCHANGED <<call, probe>>

\* the callback returned to the VM
Resume ==
    /\ phase = "returned"
    /\ phase' = "idle"
    /\ call' = NoInput
    /\ UNCHANGED <<heap, Stack, LastJump, jumpDepth, probe, origin>>

Next ==
    \/ \E in \in StartInputs : Invoke(in)
    \/ \E in \in Presented : Invoke(in)
    \/ CaptureStart
    \/ CaptureState
    \/ Resume

Spec == Init /\ [][Next]_vars

(***************************************************************************)
(* Vocabulary of the properties.                                           *)
(***************************************************************************)
\* the frames on the stack, dereferenced, bottom first
Frames == [i \in DOMAIN Stack |-> heap[Stack[i]]]

\* the pending jump, dereferenced: <<>> when LastJump is nil
Pending == IF LastJump = Nil THEN <<>> ELSE <<heap[LastJump]>>

IsPrefix(s, t) == Len(s) <= Len(t) /\ \A i \in DOMAIN s : s[i] = t[i]

\* a step of a callback handler (the only step possible once it is called)
Handling == phase = "called"

\* the handler pushed exactly one frame and left the others alone
PushedOne == Len(Stack') = Len(Stack) + 1 /\ IsPrefix(Frames, Frames')

Top(frames) == frames[Len(frames)]

Traced(addr) == addr \in DOMAIN contracts

(***************************************************************************)
(* C1.  The frame stack is append-only: across every step the frames on    *)
(* the stack before it are, unchanged and in the same order, a prefix of   *)
(* the frames after it (so nothing is popped, reordered, replaced or       *)
(* mutated once pushed), and the callbacks for RETURN, REVERT, STOP,       *)
(* SELFDESTRUCT and INVALID leave the stack and jumpDepth as they were.    *)
(***************************************************************************)
C1_AppendOnly ==
    [][ /\ IsPrefix(Frames, Frames')
        /\ (Handling /\ call.op \in HaltOps) =>
               (Frames' = Frames /\ jumpDepth' = jumpDepth) ]_vars

\* a halting opcode was handled with two frames on the stack, one of them internal
C1_Witness ==
    /\ phase = "returned"
    /\ call.op \in HaltOps
    /\ Len(Stack) >= 2
    /\ jumpDepth >= 1

(***************************************************************************)
(* C2.  Every frame on the stack has a contract address that is a key of   *)
(* the artifact set, so the front-end's lookup contracts[frame.Contract]   *)
(* finds an artifact.                                                      *)
(***************************************************************************)
C2_FramesHaveArtifact ==
    \A i \in DOMAIN Stack : Traced(heap[Stack[i]].Contract)

\* the call data starts with the selector of a public function of the target
Resolved(in) ==
    /\ in.data.len >= SelBytes
    /\ findFnDef(in.target, Slice(in.data.bytes, 0, SelBytes)) # Nil

(***************************************************************************)
(* C3, as stated.  When a contract executes a CALL-family instruction      *)
(* whose target is another, traced contract and whose selector resolves to *)
(* a public function of the target, the frame pushed for the call carries  *)
(* the target's address.                                                   *)
(***************************************************************************)
C3_FrameCarriesCallee ==
    [][ (/\ Handling /\ call.op \in CallOps
         /\ Traced(call.contract) /\ call.target # call.contract
         /\ Traced(call.target) /\ Resolved(call)
         /\ Len(Stack') = Len(Stack) + 1)
        => Top(Frames').Contract = call.target ]_vars

(***************************************************************************)
(* C3, amended.  Under the same conditions the frame pushed for the call   *)
(* carries the address of the executing (calling) contract; the target     *)
(* only selects the function whose parameters are decoded.  A CALL-family  *)
(* callback that returns has pushed exactly one such frame.                *)
(***************************************************************************)
C3_FrameCarriesCaller ==
    [][ (Handling /\ call.op \in CallOps /\ phase' = "returned")
        => /\ Resolved(call)
           /\ PushedOne
           /\ Top(Frames').Contract = call.contract ]_vars

\* contract a called balanceOf of contract b and the frame was filed under a
C3_Witness ==
    /\ phase = "returned"
    /\ call.op \in CallOps
    /\ call.contract = "a"
    /\ call.target = "b"
    /\ Len(Stack) = 2
    /\ Top(Frames).Contract = "a"
    /\ Top(Frames).Params = << <<"owner", "address", 1>> >>

\* the callee has an artifact and the input's 4-byte selector is that of one
\* of its public functions
StartMatches(in) ==
    /\ Traced(in.contract)
    /\ in.data.len >= SelBytes
    /\ \E k \in DOMAIN DiscoverFunctionDefinitions(contracts[in.contract].Ast) :
          Receiver(DiscoverFunctionDefinitions(contracts[in.contract].Ast)[k])
             = Hex(Slice(in.data.bytes, 0, SelBytes))

(***************************************************************************)
(* C4.  Start-of-call changes the tracer only when the callee has an       *)
(* artifact and the input selector is that of one of its public functions: *)
(* then exactly one frame is pushed, with the callee as contract, depth 0  *)
(* and instruction ordinal 0; otherwise the stack, the pending jump and    *)
(* jumpDepth are unchanged.                                                *)
(***************************************************************************)
C4_StartOfCall ==
    [][ (Handling /\ call.op = "start")
        => IF StartMatches(call)
           THEN /\ PushedOne
                /\ Top(Frames').Contract = call.contract
                /\ Top(Frames').Depth = 0
                /\ Top(Frames').Instruction = 0
                /\ Pending' = Pending
                /\ jumpDepth' = jumpDepth
           ELSE /\ Frames' = Frames
                /\ Pending' = Pending
                /\ jumpDepth' = jumpDepth ]_vars

(***************************************************************************)
(* C5.  A per-instruction callback observed while the executing contract   *)
(* has no artifact is ignored: whatever the opcode, the callback returns   *)
(* and the frame stack and jumpDepth are what they were.                   *)
(***************************************************************************)
C5_UntracedIgnored ==
    [][ (Handling /\ call.op \in Ops /\ ~Traced(call.contract))
        => /\ phase' = "returned"
           /\ Frames' = Frames
           /\ jumpDepth' = jumpDepth ]_vars

(***************************************************************************)
(* C6.  An unresolved selector at a CALL-family instruction is not fatal:  *)
(* when the target has no artifact or none of its public functions has the *)
(* selector of the call data, the callback returns and has pushed either   *)
(* no frame or one frame with an empty parameter list.                     *)
(***************************************************************************)
C6_UnresolvedSelectorNonFatal ==
    [][ (/\ Handling /\ call.op \in CallOps
         /\ call.data.len >= SelBytes /\ ~Resolved(call))
        => /\ phase' = "returned"
           /\ \/ Frames' = Frames
              \/ PushedOne /\ Top(Frames').Params = <<>> ]_vars

\* the pc has no entry in the contract's instruction index, or its ordinal
\* has no entry in the contract's source map
MissingLookup(in) ==
    \/ ~\E e \in instructionMaps(in.contract) : e[1] = in.pc
    \/ toInstruction(in.contract, in.pc) >= Len(sourceMaps[in.contract])

\* the call data resolves and holds every parameter word
Decodable(in) ==
    /\ Resolved(in)
    /\ LET fnDefs == DiscoverFunctionDefinitions(contracts[in.target].Ast)
           fn == findFnDef(in.target, Slice(in.data.bytes, 0, SelBytes))
       IN  DecodeParams(fnDefs[fn].Parameters, 1, SelBytes, in.data) # PanicParams

\* a frame built without lookup data: ordinal 0, or the sentinel source and line 0
Fallback(frame) ==
    frame.Instruction = 0 \/ (frame.Source = NASource /\ frame.Line = 0)

(***************************************************************************)
(* C7.  Missing lookup data never aborts a per-instruction callback in a   *)
(* traced contract: a JUMP, JUMPDEST or CALL-family instruction at a pc    *)
(* without instruction-index entry, or whose ordinal has no source-map     *)
(* entry, is handled to the end, and a frame or pending jump it produces   *)
(* has ordinal 0 or the sentinel source with line 0.                       *)
(***************************************************************************)
C7_MissingLookupNonFatal ==
    [][ (/\ Handling /\ call.op \in CallOps \cup {"JUMP", "JUMPDEST"}
         /\ Traced(call.contract) /\ MissingLookup(call)
         /\ (call.op \in CallOps => Decodable(call)))
        => /\ phase' = "returned"
           /\ Len(Stack') > Len(Stack) => Fallback(Top(Frames'))
           /\ (call.op = "JUMP" /\ LastJump' # Nil) => Fallback(heap'[LastJump']) ]_vars

(***************************************************************************)
(* C8.  A start-of-call, or a CALL-family instruction, whose input or call *)
(* data is shorter than 4 bytes is handled without abort, pushes no frame  *)
(* and leaves the stack and jumpDepth unchanged.                           *)
(***************************************************************************)
C8_ShortInputElided ==
    [][ (/\ Handling /\ call.op \in CallOps \cup {"start"}
         /\ call.data.len < SelBytes)
        => /\ phase' = "returned"
           /\ Frames' = Frames
           /\ jumpDepth' = jumpDepth ]_vars

(***************************************************************************)
(* C10, as stated.  After the per-instruction callback for any opcode      *)
(* other than JUMP the pending jump is empty.                              *)
(***************************************************************************)
C10_EmptyUnlessJump ==
    (phase = "returned" /\ call.op \in Ops \ {"JUMP"}) => LastJump = Nil

(***************************************************************************)
(* C10, amended.  After the per-instruction callback for any opcode other  *)
(* than JUMP and JUMPI the pending jump is empty; the callbacks for JUMPI  *)
(* and start-of-call leave it as it was; a JUMP that returns records the   *)
(* candidate of its own contract and pc.  So a JUMPDEST can only promote   *)
(* the candidate of the most recent JUMP, and only if nothing but JUMPI    *)
(* and start-of-call callbacks were observed since.                        *)
(***************************************************************************)
C10_EmptyUnlessJumpOrJumpi ==
    [][ Handling =>
          /\ call.op \in Ops \ {"JUMP", "JUMPI"} => LastJump' = Nil
          /\ call.op \in {"JUMPI", "start"} => Pending' = Pending
          /\ (call.op = "JUMP" /\ phase' = "returned") =>
                 /\ LastJump' # Nil
                 /\ heap'[LastJump'].PC = call.pc
                 /\ heap'[LastJump'].Contract = call.contract
                 /\ LastJump' \notin Range(Stack') ]_vars

\* a JUMPI was handled and the candidate of the JUMP before it is still pending
C10_Witness ==
    /\ phase = "returned"
    /\ call.op = "JUMPI"
    /\ LastJump # Nil

\* the frame at position i of the stack was pushed by a JUMPDEST entry
Internal(i) == origin[i] = "jump"

\* the callback in progress is a JUMPDEST that the code classifies as a return
ClassifiedReturn ==
    Handling /\ call.op = "JUMPDEST" /\ Lookup(heap, Stack, PcMinusOne(call.pc))

(***************************************************************************)
(* C11.  A JUMPDEST at pc is classified as a return only if the stack      *)
(* holds a frame that was entered through a JUMP located at pc - 1; frames *)
(* pushed by start-of-call or by a CALL-family instruction never make a    *)
(* JUMPDEST a return.                                                      *)
(***************************************************************************)
C11_ReturnOnlyAfterJump ==
    [][ ClassifiedReturn
        => \E i \in DOMAIN Stack : Internal(i) /\ Frames[i].PC = call.pc - 1 ]_vars

\* stack-mode decoding stated directly: of n parameters, the k-th in source
\* order reads stack.Back(n - k); empty strings are left out
StackModeStrings(paramNodes, st) ==
    LET n == Len(paramNodes)
        all == [k \in 1..n |-> DecodeStack(paramNodes[k], Back(st, n - k))]
    IN  SelectSeq(all, LAMBDA p : p # EmptyString)

\* the private functions of the executing contract that start where the source
\* mapping of the JUMPDEST's instruction starts
EntryFunctions(in) ==
    IF ~Traced(in.contract) THEN {}
    ELSE LET ord == toInstruction(in.contract, in.pc)
             srcMap == sourceMaps[in.contract]
             fnDefs == functionDefs[in.contract]
         IN  IF ord >= Len(srcMap) THEN {}
             ELSE {k \in DOMAIN fnDefs : fnDefs[k].Start = srcMap[ord + 1].Start}

\* the parameter list of the first such function
EntryParameters(in) ==
    functionDefs[in.contract][CHOOSE k \in EntryFunctions(in) :
                                 \A j \in EntryFunctions(in) : k <= j].Parameters

\* the three entry conditions at the JUMPDEST in progress
EntryConditions ==
    /\ EntryFunctions(call) # {}
    /\ LastJump # Nil
    /\ ~MatchFunctionText(heap[LastJump].Source)

\* the JUMPDEST in progress is not classified as a return
NotReturn == Handling /\ call.op = "JUMPDEST" /\ ~ClassifiedReturn

\* the handler pushed the pending candidate, as captured at the JUMP, with the
\* stack-mode parameters attached, and counted one more internal entry
PushedCandidate ==
    /\ phase' = "returned"
    /\ PushedOne
    /\ Top(Frames') = [Pending[1] EXCEPT
                          !.Params = StackModeStrings(EntryParameters(call), call.st)]
    /\ jumpDepth' = jumpDepth + 1

C13_ReturnEffect ==
    [][ ClassifiedReturn
        => /\ phase' = "returned"
           /\ Frames' = Frames
           /\ jumpDepth' = IF jumpDepth > 0 THEN jumpDepth - 1 ELSE 0 ]_vars

\* a JUMPDEST about to be handled as a return although it satisfies the entry
\* conditions, with one internal entry counted
C13_Witness ==
    /\ ClassifiedReturn
    /\ EntryConditions
    /\ Len(call.st) >= Len(EntryParameters(call))
    /\ jumpDepth = 1

(***************************************************************************)
(* C14.  jumpDepth is never negative, whatever the sequence of callbacks,  *)
(* returns that outnumber entries included.                                *)
(***************************************************************************)
C14_NonNegative == jumpDepth >= 0

\* a return was handled with no internal frame on the stack at all
C14_Witness ==
    /\ phase = "returned"
    /\ call.op = "JUMPDEST"
    /\ Lookup(heap, Stack, PcMinusOne(call.pc))
    /\ \A i \in DOMAIN Stack : ~Internal(i)
    /\ jumpDepth = 0

(***************************************************************************)
(* C15.  Depth of the frames of the per-instruction callback: a CALL-family*)
(* frame has depth  VM depth + jumpDepth  and the instruction leaves       *)
(* jumpDepth alone; the candidate recorded at a JUMP has depth  VM depth + *)
(* jumpDepth  at the JUMP; the frame pushed at a JUMPDEST entry keeps the  *)
(* candidate's depth, which is a VM depth plus the jumpDepth before the    *)
(* increment.                                                              *)
(***************************************************************************)
C15_DepthIsVmPlusJump ==
    [][ Handling =>
          /\ call.op \in CallOps => jumpDepth' = jumpDepth
          /\ (call.op \in CallOps /\ phase' = "returned") =>
                 Top(Frames').Depth = call.depth + jumpDepth
          /\ (call.op = "JUMP" /\ phase' = "returned") =>
                 /\ heap'[LastJump'].Depth = call.depth + jumpDepth
                 /\ jumpDepth' = jumpDepth
          /\ (call.op = "JUMPDEST" /\ Len(Stack') > Len(Stack)) =>
                 /\ Top(Frames').Depth = Pending[1].Depth
                 /\ Pending[1].Depth - jumpDepth \in 1..MaxVmDepth
                 /\ jumpDepth' = jumpDepth + 1 ]_vars

\* with one internal entry unreturned at VM depth 1, the next internal entry
\* was emitted at depth 2
C15_Witness ==
    /\ phase = "returned"
    /\ call.op = "JUMPDEST"
    /\ Len(Stack) = 2
    /\ Internal(1) /\ Internal(2)
    /\ Frames[1].Depth = 1
    /\ Frames[2].Depth = 2
    /\ jumpDepth = 2

(***************************************************************************)
(* C16.  A JUMP followed by RETURN, REVERT, STOP, SELFDESTRUCT or INVALID  *)
(* changes neither jumpDepth nor the frame stack: the JUMP only records    *)
(* the candidate, the halting opcode drops it (no reference to it is       *)
(* left), and a JUMPDEST only ever pushes the candidate pending at that    *)
(* JUMPDEST, so the dropped one is never pushed.                           *)
(***************************************************************************)
C16_JumpThenHalt ==
    [][ Handling =>
          /\ call.op = "JUMP" => (Frames' = Frames /\ jumpDepth' = jumpDepth)
          /\ call.op \in HaltOps =>
                 /\ phase' = "returned"
                 /\ Frames' = Frames
                 /\ jumpDepth' = jumpDepth
                 /\ LastJump' = Nil
                 /\ DOMAIN heap' = Range(Stack')
          /\ (call.op = "JUMPDEST" /\ Len(Stack') > Len(Stack)) =>
                 /\ LastJump # Nil
                 /\ PushedOne
                 /\ Top(Frames') = [Pending[1] EXCEPT !.Params = Top(Frames').Params] ]_vars

\* a halting opcode is presented while the candidate of a JUMP is pending
C16_Witness ==
    /\ Handling
    /\ call.op \in HaltOps
    /\ LastJump # Nil
    /\ Len(Stack) >= 1

\* the number of internal frames on the stack
InternalCount == Cardinality({i \in DOMAIN Stack : Internal(i)})

(***************************************************************************)
(* C19.  jumpDepth changes only in JUMPDEST callbacks and by at most one   *)
(* per callback; start-of-call, JUMP, CALL-family and all other opcodes    *)
(* leave it unchanged; and it never exceeds the number of frames on the    *)
(* stack that a JUMPDEST entry pushed.                                     *)
(***************************************************************************)
C19_JumpDepthBound ==
    [][ /\ jumpDepth' <= InternalCount'
        /\ jumpDepth' # jumpDepth =>
               /\ Handling /\ call.op = "JUMPDEST"
               /\ jumpDepth' \in {jumpDepth - 1, jumpDepth + 1} ]_vars

\* two internal entries, then one return: jumpDepth is below the number of
\* internal frames
C19_Witness ==
    /\ phase = "returned"
    /\ call.op = "JUMPDEST"
    /\ InternalCount = 2
    /\ jumpDepth = 1

(***************************************************************************)
(* Decoding one parameter, on its own.  probe holds a parameter node, the  *)
(* word it is decoded from and, once a decoder ran, the mode and the       *)
(* decoded string.  In buffer mode the word follows a selector in the      *)
(* input; in stack mode it is the VM's stack item, an unsigned integer.    *)
(***************************************************************************)
ProbeBytes == {0, 1, 127, 128, 255}

ProbeTypes == {T_uint256, T_int256, T_address, T_bool, T_bytes}

ProbeWords == [1..WordBytes -> ProbeBytes]

InitDecode ==
    /\ heap = <<>>
    /\ Stack = <<>>
    /\ LastJump = Nil
    /\ jumpDepth = 0
    /\ phase = "idle"
    /\ call = NoInput
    /\ origin = <<>>
    /\ probe \in [node : [Name : {"p"}, TypeString : ProbeTypes],
                  word : ProbeWords, mode : {"none"}, out : {EmptyString}]

DecodeFromBuffer ==
    /\ probe.mode = "none"
    /\ probe' = [probe EXCEPT !.mode = "buffer",
                              !.out = DecodeParam(probe.node, SelBytes,
                                                  Buffer(SelSet \o probe.word))]
    /\ UNCHANGED <<heap, Stack, LastJump, jumpDepth, phase, call, origin>>

DecodeFromStack ==
    /\ probe.mode = "none"
    /\ probe' = [probe EXCEPT !.mode = "stack",
                              !.out = DecodeStack(probe.node, SetBytes(probe.word))]
    /\ UNCHANGED <<heap, Stack, LastJump, jumpDepth, phase, call, origin>>

NextDecode == DecodeFromBuffer \/ DecodeFromStack

SpecDecode == InitDecode /\ [][NextDecode]_vars

\* the word read as a two's-complement integer of 8 * WordBytes bits
TwosComplement(word) ==
    IF word[1] >= 128 THEN SetBytes(word) - Pow256(WordBytes) ELSE SetBytes(word)

(***************************************************************************)
(* C9.  Integer parameters are formatted by signedness, in buffer mode and *)
(* in stack mode: a uintN parameter prints the word as an unsigned         *)
(* integer, an intN parameter prints it as a two's-complement integer      *)
(* (negative when the top bit is set).                                     *)
(***************************************************************************)
C9_IntegersBySignedness ==
    probe.mode \in {"buffer", "stack"} =>
        /\ HasPrefix(probe.node.TypeString, <<"u","i","n","t">>) =>
               probe.out = <<probe.node.Name, "int", SetBytes(probe.word)>>
        /\ HasPrefix(probe.node.TypeString, <<"i","n","t">>) =>
               probe.out = <<probe.node.Name, "int", TwosComplement(probe.word)>>

(***************************************************************************)
(* The backward walk of toPreviousSourceMapping, on its own.  probe holds  *)
(* a source map, an instruction ordinal and, once the walk ran, its        *)
(* result: the 1-based index of the entry returned, Nil, or Panic.         *)
(***************************************************************************)
ProbeSpans == {<<0, 4>>, <<1, 1>>, <<5, 3>>}

ProbeMaps ==
    UNION { {ParseSourceMap(spans, SourceA) : spans \in [1..n -> ProbeSpans]} :
               n \in 1..MaxMapLen }

InitPrevious ==
    /\ heap = <<>>
    /\ Stack = <<>>
    /\ LastJump = Nil
    /\ jumpDepth = 0
    /\ phase = "idle"
    /\ call = NoInput
    /\ origin = <<>>
    /\ probe \in [srcMap : ProbeMaps, instruction : 0..MaxMapLen,
                  mode : {"none"}, out : {Nil}]

WalkBack ==
    /\ probe.mode = "none"
    /\ probe' = [probe EXCEPT !.mode = "previous",
                              !.out = PreviousMappingIn(probe.srcMap, probe.instruction)]
    /\ UNCHANGED <<heap, Stack, LastJump, jumpDepth, phase, call, origin>>

NextPrevious == WalkBack

SpecPrevious == InitPrevious /\ [][NextPrevious]_vars

\* entries j and i (0-based ordinals) of the map have the same (start, length)
SameSpan(srcMap, j, i) ==
    /\ srcMap[j + 1].Start = srcMap[i + 1].Start
    /\ srcMap[j + 1].Length = srcMap[i + 1].Length

\* the earlier ordinals whose (start, length) differs from ordinal i's
Differing(srcMap, i) == {j \in 0..(i - 1) : ~SameSpan(srcMap, j, i)}

(***************************************************************************)
(* C17.  For an ordinal i inside the source map with at least one earlier  *)
(* entry of a different (start, length), the previous mapping is the entry *)
(* at the greatest j < i whose (start, length) differs from entry i's, and *)
(* every entry strictly between j and i has entry i's (start, length).     *)
(***************************************************************************)
C17_PreviousIsLastDiffering ==
    (/\ probe.mode = "previous"
     /\ probe.instruction < Len(probe.srcMap)
     /\ Differing(probe.srcMap, probe.instruction) # {})
    => \E j \in Differing(probe.srcMap, probe.instruction) :
          /\ \A k \in Differing(probe.srcMap, probe.instruction) : k <= j
          /\ probe.out = j + 1
          /\ \A k \in (j + 1)..(probe.instruction - 1) :
                SameSpan(probe.srcMap, k, probe.instruction)

\* the walk from ordinal 3 skipped ordinals 2 and 1 and returned ordinal 0
C17_Witness ==
    /\ probe.mode = "previous"
    /\ Len(probe.srcMap) = 4
    /\ probe.instruction = 3
    /\ SameSpan(probe.srcMap, 2, 3)
    /\ SameSpan(probe.srcMap, 1, 3)
    /\ ~SameSpan(probe.srcMap, 0, 3)
    /\ probe.out = 1

(***************************************************************************)
(* C20.  The backward walk is total: for every ordinal i inside the source *)
(* map, i = 0 and the case where all earlier entries share entry i's       *)
(* (start, length) included, it returns an entry of the source map and its *)
(* index never leaves the map.                                             *)
(***************************************************************************)
C20_WalkIsTotal ==
    (probe.mode = "previous" /\ probe.instruction < Len(probe.srcMap))
    => probe.out \in DOMAIN probe.srcMap

(***************************************************************************)
(* Stack-mode decoding of a parameter list, on its own.  probe holds the   *)
(* parameter nodes, the evaluation stack (top last) and, once the decoder  *)
(* ran, the list of decoded strings.                                       *)
(***************************************************************************)
ProbeNodes == [Name : {"p", "q"}, TypeString : ProbeTypes]

ProbeParams == UNION { [1..n -> ProbeNodes] : n \in 0..MaxParams }

ProbeItems == {0, 7, 300}

ProbeStacks == UNION { [1..n -> ProbeItems] : n \in 0..MaxEval }

InitStack ==
    /\ heap = <<>>
    /\ Stack = <<>>
    /\ LastJump = Nil
    /\ jumpDepth = 0
    /\ phase = "idle"
    /\ call = NoInput
    /\ origin = <<>>
    /\ probe \in [params : ProbeParams, st : ProbeStacks,
                  mode : {"none"}, out : {<<>>}]

DecodeEntry ==
    /\ probe.mode = "none"
    /\ probe' = [probe EXCEPT !.mode = "entry",
                              !.out = DecodeStackParams(probe.params, probe.st)]
    /\ UNCHANGED <<heap, Stack, LastJump, jumpDepth, phase, call, origin>>

NextStack == DecodeEntry

SpecStack == InitStack /\ [][NextStack]_vars

(***************************************************************************)
(* C18.  Stack-mode decoding of n parameters, on a stack that holds at     *)
(* least n words, pairs parameter n-1-i with stack.Back(i), so the last    *)
(* source parameter with the top of the stack, and returns the decoded     *)
(* strings in source order; a parameter of unsupported type is left out    *)
(* and still takes its word, so the other parameters read the same words.  *)
(***************************************************************************)
C18_StackModePairing ==
    (probe.mode = "entry" /\ Len(probe.st) >= Len(probe.params))
    => probe.out = StackModeStrings(probe.params, probe.st)

\* p is decoded from the word below the top although q, which takes the top
\* word, is of an unsupported type and left out
C18_Witness ==
    /\ probe.mode = "entry"
    /\ probe.params = << [Name |-> "p", TypeString |-> T_uint256],
                         [Name |-> "q", TypeString |-> T_bytes] >>
    /\ probe.st = <<0, 7, 300>>
    /\ probe.out = << <<"p", "int", 7>> >>

====
